---- MODULE Spec2Model ----
(***************************************************************************)
(* A model of probe, a local code-search engine (nikita2206/probe).        *)
(*                                                                         *)
(* Spec        the indexing protocol of SearchEngine (search_engine.rs):   *)
(*             ensure_index_updated, rebuild_index and a direct caller of  *)
(*             SearchIndex::index_files (search_index.rs), the fingerprint *)
(*             store (metadata.rs), a filesystem that changes under the    *)
(*             engine, and a search that opens a reader at any moment.     *)
(* SpecDirect  index_files called by a caller of its own, which may drop    *)
(*             the returned path iterator.                                 *)
(* SpecSchema  the same protocol started on an index directory left by a   *)
(*             build with another schema.                                  *)
(* SpecSearch  SearchEngine::search_with_reranker on an index that opens,   *)
(*             over bounded sets of matching documents.                    *)
(* SpecFetch, SpecFilter, SpecTokens, SpecMeta, SpecCaps: the fetch limit,  *)
(*             the file-type filter, the identifier analyzer, the save of  *)
(*             the fingerprint file, the size and line caps.               *)
(* SpecJava, SpecChunks, SpecWholeFile, SpecJavaDecl: the chunkers.        *)
(* SpecSnippet the snippet window of a whole-file hit.                     *)
(* SpecPipe, SpecPipeLive: index_files thread by thread, the second with   *)
(*             threads that are scheduled.                                 *)
(***************************************************************************)
EXTENDS Integers, Sequences, FiniteSets, TLC

VARIABLES
    \* ---- the world the engine runs in
    fs,         \* [Paths -> file]: the files under the root (NoFile: absent)
    clock,      \* the filesystem's time: every write takes a fresh mtime
    metaDisk,   \* .probe/metadata.bin: [present, files, whole]; whole: a complete blob
    idx,        \* .probe, the tantivy index: [exists, schema, docs]; docs = last commit
    \* ---- one run of the engine (a process; at most one writer at a time)
    pc,         \* position of the run
    kind,       \* "ensure" | "rebuild" | "direct" | "none"
    files,      \* the walker's files, as collected by this run
    batch,      \* the paths handed to index_files
    meta,       \* the in-memory IndexMetadata of the run
    todo,       \* files whose worker closure has not run yet
    readRec,    \* [Paths -> file]: what each worker read (NoFile: nothing read)
    docChan,    \* documents sent on doc_tx and not yet received
    pathChan,   \* paths sent on path_tx and not yet received by the caller
    pending,    \* documents added to the IndexWriter and not yet committed
    committed,  \* index_files of this run has returned Ok (commit returned)
    prevDocs,   \* the documents of the last commit before this run began
    result,     \* "none" | "ok" | "err": how the last run ended
    dropped,    \* the caller dropped the path iterator with paths still in it
    obs,        \* what the last concurrent search saw
    fsQuiet,    \* no file under the root has changed since the last run began
    \* ---- search_with_reranker (SpecSearch)
    sq          \* the state of one search_with_reranker call

engineVars == <<fs, clock, metaDisk, idx, pc, kind, files, batch, meta, todo, readRec,
                docChan, pathChan, pending, committed, prevDocs, result, dropped, obs,
                fsQuiet>>
vars == <<engineVars, sq>>

----------------------------------------------------------------------------
(* Bounds *)

\* number of writes the environment makes to files under the root
MaxClock == 2

Paths == {"a", "b"}

----------------------------------------------------------------------------
(* Files *)

MAX_FILE_SIZE == 512 * 1024
MAX_LINE_LENGTH == 8096

\* What a file can hold, as far as the pipeline can tell files apart: its byte
\* length, its longest line, whether it is valid UTF-8, whether the chunker
\* returns Ok for it and how many chunks it returns.
Shapes ==
    { [size |-> 120,    maxline |-> 40,   utf8 |-> TRUE,  parse |-> TRUE,  nchunks |-> 2],
      [size |-> 3,      maxline |-> 1,    utf8 |-> TRUE,  parse |-> TRUE,  nchunks |-> 0],
      [size |-> 614400, maxline |-> 40,   utf8 |-> TRUE,  parse |-> TRUE,  nchunks |-> 1],
      [size |-> 9009,   maxline |-> 9009, utf8 |-> TRUE,  parse |-> TRUE,  nchunks |-> 1],
      [size |-> 120,    maxline |-> 40,   utf8 |-> FALSE, parse |-> TRUE,  nchunks |-> 0],
      [size |-> 120,    maxline |-> 40,   utf8 |-> TRUE,  parse |-> FALSE, nchunks |-> 0] }

NoFile == [mtime |-> 0, size |-> 0, maxline |-> 0, utf8 |-> TRUE, parse |-> TRUE, nchunks |-> 0]

FileOf(s, t) ==
    [mtime |-> t, size |-> s.size, maxline |-> s.maxline, utf8 |-> s.utf8,
     parse |-> s.parse, nchunks |-> s.nchunks]

Exists(f) == f.mtime # 0

\* FileScanner::iter_files: the regular files under the root at the moment of the walk
\* (Paths holds only paths the ignore rules and the extension blacklist let through).
Walk == {p \in Paths : Exists(fs[p])}

----------------------------------------------------------------------------
(* The fingerprint store, metadata.rs *)

NoEntry == [size |-> -1, mtime |-> -1]
EmptyStore == [p \in Paths |-> NoEntry]
NoMeta == [present |-> FALSE, files |-> EmptyStore, whole |-> TRUE]

\* IndexMetadata::load returns Ok: the file cannot be read (line 28), or
\* bincode::deserialize accepts its bytes (line 27); the `?` returns the error of
\* a blob that is not a whole one
LoadOk(md) == ~md.present \/ md.whole

\* IndexMetadata::load: the stored map, or an empty store when the file cannot be read
Load(md) == IF md.present THEN md.files ELSE EmptyStore

\* IndexMetadata::file_changed_with_reason, its bool
FileChanged(store, p) ==
    IF ~Exists(fs[p]) THEN TRUE
    ELSE IF store[p] # NoEntry
         THEN IF store[p].size # fs[p].size THEN TRUE
              ELSE IF store[p].mtime # fs[p].mtime THEN TRUE
              ELSE FALSE
         ELSE TRUE

\* IndexMetadata::needs_reindex
NeedsReindex(store, fileSet) == {p \in fileSet : FileChanged(store, p)}

\* IndexMetadata::update_file: a file that no longer exists is skipped
UpdateFile(store, p) ==
    IF ~Exists(fs[p]) THEN store
    ELSE [store EXCEPT ![p] = [size |-> fs[p].size, mtime |-> fs[p].mtime]]

\* the loop `for file in &files { metadata.update_file(file)?; }`
UpdateAll(store, fileSet) ==
    [p \in Paths |-> IF p \in fileSet THEN UpdateFile(store, p)[p] ELSE store[p]]

\* the keys of a store
Keys(store) == {p \in Paths : store[p] # NoEntry}

----------------------------------------------------------------------------
(* The index directory, search_index.rs *)

Fields == {"path", "declaration", "body", "filetype",
           "chunk_type", "chunk_name", "start_line", "end_line"}

\* A schema is a set of fields, each with the options it was built with:
\* "cur" as SearchIndex::new builds it, "old" anything else under the same name.
CodeSchema == {[name |-> f, opts |-> "cur"] : f \in Fields}

NoIndex == [exists |-> FALSE, schema |-> {}, docs |-> {}]
FreshIndex == [exists |-> TRUE, schema |-> CodeSchema, docs |-> {}]

HasField(schema, f) == \E e \in schema : e.name = f

\* SearchIndex::open: Index::open_in_dir needs an index in the directory; the `?` on
\* get_field fails for path, declaration, body and filetype only; the other four
\* fall back to the filetype field (unwrap_or_else).
OpenOk(ix) ==
    /\ ix.exists
    /\ HasField(ix.schema, "path")
    /\ HasField(ix.schema, "declaration")
    /\ HasField(ix.schema, "body")
    /\ HasField(ix.schema, "filetype")

\* SearchIndex::new: Index::create_in_dir returns IndexAlreadyExists when the
\* directory already holds an index, and never removes anything.
NewOk(ix) == ~ix.exists

\* a worker that forgets the line cap
ShouldSkip_NoLineCap(f) ==
    \/ ~Exists(f)
    \/ ~f.utf8
    \/ f.size > MAX_FILE_SIZE
    \/ ~f.parse

\* the worker's early returns: unreadable or not UTF-8, over the size cap,
\* a line over the line cap, the chunker's Err
ShouldSkip(f) ==
    \/ ~Exists(f)
    \/ ~f.utf8
    \/ f.size > MAX_FILE_SIZE
    \/ f.maxline > MAX_LINE_LENGTH
    \/ ~f.parse

\* the documents a worker builds for a file: one per chunk, or one "file"
\* document when the chunker returned no chunk. ver is the mtime of the
\* version of the file the documents were derived from.
ChunkDocs(p, f) ==
    IF f.nchunks = 0
    THEN {[path |-> p, ver |-> f.mtime, k |-> 0, ctype |-> "file"]}
    ELSE {[path |-> p, ver |-> f.mtime, k |-> i, ctype |-> "chunk"] : i \in 1..f.nchunks}

NoRead == [p \in Paths |-> NoFile]
NoObs == [phase |-> "none", ok |-> FALSE, docs |-> {}]

SqIdle == [pc |-> "off"]

----------------------------------------------------------------------------
(* The environment: files change under the engine *)

\* something writes path p: new content, fresh mtime
WriteFile(p, s) ==
    /\ clock < MaxClock
    /\ clock' = clock + 1
    /\ fs' = [fs EXCEPT ![p] = FileOf(s, clock + 1)]
    /\ fsQuiet' = FALSE
    /\ UNCHANGED <<metaDisk, idx, pc, kind, files, batch, meta, todo, readRec, docChan,
                   pathChan, pending, committed, prevDocs, result, dropped, obs, sq>>

\* something removes path p
DeleteFile(p) ==
    /\ Exists(fs[p])
    /\ fs' = [fs EXCEPT ![p] = NoFile]
    /\ fsQuiet' = FALSE
    /\ UNCHANGED <<clock, metaDisk, idx, pc, kind, files, batch, meta, todo, readRec,
                   docChan, pathChan, pending, committed, prevDocs, result, dropped, obs, sq>>

\* another process runs search_with_reranker while a run is under way:
\* SearchIndex::open, then SearchIndex::search opens a reader, which sees the
\* last commit
Search ==
    /\ pc \notin {"idle", "done"}
    /\ obs' = [phase |-> IF committed THEN "built" ELSE "building",
               ok    |-> OpenOk(idx),
               docs  |-> IF OpenOk(idx) THEN idx.docs ELSE {}]
    /\ obs' # obs
    /\ UNCHANGED <<fs, clock, metaDisk, idx, pc, kind, files, batch, meta, todo, readRec,
                   docChan, pathChan, pending, committed, prevDocs, result, dropped, fsQuiet, sq>>

----------------------------------------------------------------------------
(* A run begins *)

\* the state every run starts from
BeginRun(k) ==
    /\ pc \in {"idle", "done"}
    /\ kind' = k
    /\ meta' = EmptyStore
    /\ readRec' = NoRead
    /\ docChan' = {}
    /\ pathChan' = {}
    /\ pending' = {}
    /\ committed' = FALSE
    /\ prevDocs' = idx.docs
    /\ result' = "none"
    /\ dropped' = FALSE
    /\ obs' = NoObs
    /\ fsQuiet' = TRUE
    /\ UNCHANGED <<fs, clock, sq>>

\* ensure_index_updated, lines 33-35: the walker's files are collected
EnsureScan ==
    /\ BeginRun("ensure")
    /\ files' = Walk
    /\ batch' = {}
    /\ todo' = {}
    /\ pc' = "e_scanned"
    /\ UNCHANGED <<metaDisk, idx>>

\* ensure_index_updated, lines 41-49 and 82-86: load (its error returned by the
\* `?`), needs_reindex; nothing changed: Ok(())
EnsureDiff ==
    /\ pc = "e_scanned"
    /\ IF ~LoadOk(metaDisk)
       THEN pc' = "done" /\ result' = "load_err" /\ UNCHANGED <<meta, batch>>
       ELSE LET m == Load(metaDisk)
                ch == NeedsReindex(m, files)
            IN /\ meta' = m
               /\ batch' = ch
               /\ IF ch = {}
                  THEN pc' = "done" /\ result' = "ok"
                  ELSE pc' = "e_open" /\ result' = result
    /\ UNCHANGED <<fs, clock, metaDisk, idx, kind, files, todo, readRec, docChan, pathChan,
                   pending, committed, prevDocs, dropped, obs, fsQuiet, sq>>

\* ensure_index_updated, lines 59-68: open the index, or create it when open fails;
\* index_files then collects the changed files
EnsureOpen ==
    /\ pc = "e_open"
    /\ IF OpenOk(idx)
       THEN idx' = idx /\ pc' = "workers" /\ todo' = batch /\ result' = result
       ELSE IF NewOk(idx)
            THEN idx' = FreshIndex /\ pc' = "workers" /\ todo' = batch /\ result' = result
            ELSE idx' = idx /\ pc' = "done" /\ todo' = todo /\ result' = "err"
    /\ UNCHANGED <<fs, clock, metaDisk, kind, files, batch, meta, readRec, docChan, pathChan,
                   pending, committed, prevDocs, dropped, obs, fsQuiet, sq>>

\* rebuild_index, lines 93-98: remove_dir_all(.probe); metadata.bin lives in it
RebuildRemove ==
    /\ BeginRun("rebuild")
    /\ idx' = NoIndex
    /\ metaDisk' = NoMeta
    /\ files' = {}
    /\ batch' = {}
    /\ todo' = {}
    /\ pc' = "r_create"

\* a rebuild whose new index still holds the documents of the old one
RebuildCreate_KeepsDocs ==
    /\ pc = "r_create"
    /\ idx' = [FreshIndex EXCEPT !.docs = prevDocs]
    /\ files' = Walk
    /\ batch' = Walk
    /\ todo' = Walk
    /\ pc' = "workers"
    /\ UNCHANGED <<fs, clock, metaDisk, kind, meta, readRec, docChan, pathChan, pending,
                   committed, prevDocs, result, dropped, obs, fsQuiet, sq>>

\* rebuild_index, lines 100-107: SearchIndex::new; index_files collects the walker's files
RebuildCreate ==
    /\ pc = "r_create"
    /\ IF NewOk(idx)
       THEN /\ idx' = FreshIndex
            /\ files' = Walk
            /\ batch' = Walk
            /\ todo' = Walk
            /\ pc' = "workers"
            /\ result' = result
       ELSE /\ pc' = "done"
            /\ result' = "err"
            /\ UNCHANGED <<idx, files, batch, todo>>
    /\ UNCHANGED <<fs, clock, metaDisk, kind, meta, readRec, docChan, pathChan, pending,
                   committed, prevDocs, dropped, obs, fsQuiet, sq>>

\* a caller of SearchIndex::new or open, then index_files, with files of its own
\* choice (tests/test_search_query_processing.rs)
DirectStart(S) ==
    /\ BeginRun("direct")
    /\ OpenOk(idx) \/ NewOk(idx)
    /\ idx' = IF OpenOk(idx) THEN idx ELSE FreshIndex
    /\ files' = {}
    /\ batch' = S
    /\ todo' = S
    /\ pc' = "workers"
    /\ UNCHANGED metaDisk

----------------------------------------------------------------------------
(* SearchIndex::index_files *)

\* the closure spawned for one file, lines 207-270: one read of the file, then the
\* early returns, then the path on path_tx and the documents on doc_tx. Both
\* channels are mpsc::channel(), unbounded, and nothing receives before the
\* rayon scope has joined every closure.
Worker(p) ==
    /\ pc = "workers"
    /\ p \in todo
    /\ todo' = todo \ {p}
    /\ readRec' = [readRec EXCEPT ![p] = fs[p]]
    /\ IF ShouldSkip(fs[p])
       THEN UNCHANGED <<pathChan, docChan>>
       ELSE /\ pathChan' = pathChan \cup {p}
            /\ docChan' = docChan \cup ChunkDocs(p, fs[p])
    /\ UNCHANGED <<fs, clock, metaDisk, idx, pc, kind, files, batch, meta, pending, committed,
                   prevDocs, result, dropped, obs, fsQuiet, sq>>

\* a writer whose added documents are searchable before the commit
WriterDrain_Uncommitted ==
    /\ pc = "workers"
    /\ todo = {}
    /\ pending' = docChan
    /\ idx' = [idx EXCEPT !.docs = idx.docs \cup docChan]
    /\ docChan' = {}
    /\ pc' = "commit"
    /\ UNCHANGED <<fs, clock, metaDisk, kind, files, batch, meta, todo, readRec, pathChan,
                   committed, prevDocs, result, dropped, obs, fsQuiet, sq>>

\* lines 273-279: the scope has joined; every document of doc_rx goes to add_document
WriterDrain ==
    /\ pc = "workers"
    /\ todo = {}
    /\ pending' = docChan
    /\ docChan' = {}
    /\ pc' = "commit"
    /\ UNCHANGED <<fs, clock, metaDisk, idx, kind, files, batch, meta, todo, readRec, pathChan,
                   committed, prevDocs, result, dropped, obs, fsQuiet, sq>>

\* line 278: add_document returns Err and the `?` leaves index_files; the caller's
\* `?` leaves the run. The writer is dropped with what it had buffered.
AddDocumentFails ==
    /\ pc = "workers"
    /\ todo = {}
    /\ docChan # {}
    /\ docChan' = {}
    /\ pathChan' = {}
    /\ pc' = "done"
    /\ result' = "err"
    /\ UNCHANGED <<fs, clock, metaDisk, idx, kind, files, batch, meta, todo, readRec, pending,
                   committed, prevDocs, dropped, obs, fsQuiet, sq>>

\* lines 281-284: commit returns Ok: the batch joins the committed documents (no
\* delete is ever issued), and index_files returns the path iterator
Commit ==
    /\ pc = "commit"
    /\ idx' = [idx EXCEPT !.docs = idx.docs \cup pending]
    /\ pending' = {}
    /\ committed' = TRUE
    /\ pc' = "returned"
    /\ UNCHANGED <<fs, clock, metaDisk, kind, files, batch, meta, todo, readRec, docChan,
                   pathChan, prevDocs, result, dropped, obs, fsQuiet, sq>>

\* a caller that swallows the commit's error and carries on
CommitFails_Ignored ==
    /\ pc = "commit"
    /\ pending' = {}
    /\ pc' = "returned"
    /\ UNCHANGED <<fs, clock, metaDisk, idx, kind, files, batch, meta, todo, readRec, docChan,
                   pathChan, committed, prevDocs, result, dropped, obs, fsQuiet, sq>>

\* line 281: commit returns Err: the batch is lost, the run returns the error
CommitFails ==
    /\ pc = "commit"
    /\ pending' = {}
    /\ pathChan' = {}
    /\ pc' = "done"
    /\ result' = "err"
    /\ UNCHANGED <<fs, clock, metaDisk, idx, kind, files, batch, meta, todo, readRec, docChan,
                   committed, prevDocs, dropped, obs, fsQuiet, sq>>

----------------------------------------------------------------------------
(* After index_files has returned *)

\* one turn of `for file in indexed_files`: the engine calls update_file, the
\* direct caller looks at the path and lets it go
ConsumePath(p) ==
    /\ pc = "returned"
    /\ p \in pathChan
    /\ pathChan' = pathChan \ {p}
    /\ meta' = IF kind = "direct" THEN meta ELSE UpdateFile(meta, p)
    /\ UNCHANGED <<fs, clock, metaDisk, idx, pc, kind, files, batch, todo, readRec, docChan,
                   pending, committed, prevDocs, result, dropped, obs, fsQuiet, sq>>

\* the iterator is exhausted
IterDone ==
    /\ pc = "returned"
    /\ pathChan = {}
    /\ pc' = CASE kind = "ensure" -> "e_update_all"
               [] kind = "rebuild" -> "save"
               [] OTHER -> "done"
    /\ result' = IF kind = "direct" THEN "ok" ELSE result
    /\ UNCHANGED <<fs, clock, metaDisk, idx, kind, files, batch, meta, todo, readRec, docChan,
                   pathChan, pending, committed, prevDocs, dropped, obs, fsQuiet, sq>>

\* the direct caller drops the iterator with paths still in it
DropIterator ==
    /\ pc = "returned"
    /\ kind = "direct"
    /\ pathChan # {}
    /\ pathChan' = {}
    /\ dropped' = TRUE
    /\ pc' = "done"
    /\ result' = "ok"
    /\ UNCHANGED <<fs, clock, metaDisk, idx, kind, files, batch, meta, todo, readRec, docChan,
                   pending, committed, prevDocs, obs, fsQuiet, sq>>

\* ensure_index_updated, lines 75-78: update_file for every file of the walk
EnsureUpdateAll ==
    /\ pc = "e_update_all"
    /\ meta' = UpdateAll(meta, files)
    /\ pc' = "save"
    /\ UNCHANGED <<fs, clock, metaDisk, idx, kind, files, batch, todo, readRec, docChan,
                   pathChan, pending, committed, prevDocs, result, dropped, obs, fsQuiet, sq>>

\* metadata.save (search_engine.rs 80 and 125), then Ok(())
Save ==
    /\ pc = "save"
    /\ metaDisk' = [present |-> TRUE, files |-> meta, whole |-> TRUE]
    /\ pc' = "done"
    /\ result' = "ok"
    /\ UNCHANGED <<fs, clock, idx, kind, files, batch, meta, todo, readRec, docChan, pathChan,
                   pending, committed, prevDocs, dropped, obs, fsQuiet, sq>>

\* IndexMetadata::save, line 37, first half: fs::write creates or truncates
\* metadata.bin and starts to write the serialized store into it
SaveCreate ==
    /\ pc = "save"
    /\ metaDisk' = [present |-> TRUE, files |-> EmptyStore, whole |-> FALSE]
    /\ pc' = "saving"
    /\ UNCHANGED <<fs, clock, idx, kind, files, batch, meta, todo, readRec, docChan, pathChan,
                   pending, committed, prevDocs, result, dropped, obs, fsQuiet, sq>>

\* IndexMetadata::save, line 37, second half: the last byte is written; Ok(())
SaveWriteAll ==
    /\ pc = "saving"
    /\ metaDisk' = [present |-> TRUE, files |-> meta, whole |-> TRUE]
    /\ pc' = "done"
    /\ result' = "ok"
    /\ UNCHANGED <<fs, clock, idx, kind, files, batch, meta, todo, readRec, docChan, pathChan,
                   pending, committed, prevDocs, dropped, obs, fsQuiet, sq>>

\* the process is interrupted (killed, power lost) while fs::write is under way
Interrupt ==
    /\ pc = "saving"
    /\ pc' = "done"
    /\ result' = "killed"
    /\ UNCHANGED <<fs, clock, metaDisk, idx, kind, files, batch, meta, todo, readRec, docChan,
                   pathChan, pending, committed, prevDocs, dropped, obs, fsQuiet, sq>>

----------------------------------------------------------------------------
(* The indexing protocol *)

\* a root with no file in it, and no run under way
EngineInit ==
    /\ fs = [p \in Paths |-> NoFile]
    /\ clock = 0
    /\ metaDisk = NoMeta
    /\ pc = "idle"
    /\ kind = "none"
    /\ files = {}
    /\ batch = {}
    /\ meta = EmptyStore
    /\ todo = {}
    /\ readRec = NoRead
    /\ docChan = {}
    /\ pathChan = {}
    /\ pending = {}
    /\ committed = FALSE
    /\ prevDocs = {}
    /\ result = "none"
    /\ dropped = FALSE
    /\ obs = NoObs
    /\ fsQuiet = TRUE

Init ==
    /\ EngineInit
    /\ idx = NoIndex
    /\ sq = SqIdle

\* what the world does around a run
Environment ==
    \/ \E p \in Paths, s \in Shapes : WriteFile(p, s)
    \/ \E p \in Paths : DeleteFile(p)
    \/ Search

\* index_files, from the spawned closures to the returned iterator's end
IndexFiles ==
    \/ \E p \in Paths : Worker(p)
    \/ WriterDrain
    \/ AddDocumentFails
    \/ Commit
    \/ CommitFails
    \/ \E p \in Paths : ConsumePath(p)
    \/ IterDone

Next ==
    \/ Environment
    \/ EnsureScan
    \/ EnsureDiff
    \/ EnsureOpen
    \/ RebuildRemove
    \/ RebuildCreate
    \/ IndexFiles
    \/ EnsureUpdateAll
    \/ Save

Spec == Init /\ [][Next]_vars

\* index_files called directly, by a caller that may drop the iterator
NextDirect ==
    \/ Environment
    \/ \E S \in SUBSET Paths \ {{}} : DirectStart(S)
    \/ IndexFiles
    \/ DropIterator

SpecDirect == Init /\ [][NextDirect]_vars

\* index directories left by builds with another schema: a field missing, or a
\* field built with other options
OldSchemas ==
    { CodeSchema \ {[name |-> "chunk_type", opts |-> "cur"]},
      CodeSchema \ {[name |-> "end_line", opts |-> "cur"]},
      CodeSchema \ {[name |-> "body", opts |-> "cur"]},
      (CodeSchema \ {[name |-> "filetype", opts |-> "cur"]})
          \cup {[name |-> "filetype", opts |-> "old"]} }

InitSchema ==
    /\ EngineInit
    /\ \E s \in OldSchemas : idx = [exists |-> TRUE, schema |-> s, docs |-> {}]
    /\ sq = SqIdle

SpecSchema == InitSchema /\ [][Next]_vars

\* valid UTF-8 files the chunker accepts, at and around the two caps
CapShapes ==
    { [size |-> s, maxline |-> l, utf8 |-> TRUE, parse |-> TRUE, nchunks |-> 1] :
        s \in {MAX_FILE_SIZE - 1, MAX_FILE_SIZE, MAX_FILE_SIZE + 1},
        l \in {MAX_LINE_LENGTH, MAX_LINE_LENGTH + 1, 8192, 8193} }

\* a root that holds files at the caps, and no index
InitCaps ==
    /\ fs \in [Paths -> {FileOf(s, 1) : s \in CapShapes} \cup {NoFile}]
    /\ clock = 1
    /\ metaDisk = NoMeta
    /\ pc = "idle"
    /\ kind = "none"
    /\ files = {}
    /\ batch = {}
    /\ meta = EmptyStore
    /\ todo = {}
    /\ readRec = NoRead
    /\ docChan = {}
    /\ pathChan = {}
    /\ pending = {}
    /\ committed = FALSE
    /\ prevDocs = {}
    /\ result = "none"
    /\ dropped = FALSE
    /\ obs = NoObs
    /\ fsQuiet = TRUE
    /\ idx = NoIndex
    /\ sq = SqIdle

\* index_files over the files at the caps
NextCaps ==
    \/ \E S \in SUBSET Paths \ {{}} : DirectStart(S)
    \/ IndexFiles

SpecCaps == InitCaps /\ [][NextCaps]_vars

\* the runs with fs::write of the fingerprint file in its two halves, and a
\* process that can be interrupted between them
NextMeta ==
    \/ Environment
    \/ EnsureScan
    \/ EnsureDiff
    \/ EnsureOpen
    \/ RebuildRemove
    \/ RebuildCreate
    \/ IndexFiles
    \/ EnsureUpdateAll
    \/ SaveCreate
    \/ SaveWriteAll
    \/ Interrupt

SpecMeta == Init /\ [][NextMeta]_vars

----------------------------------------------------------------------------
(* SearchEngine::search_with_reranker *)

\* the documents a query can match
MaxDocs == 4

DefaultLimit == 5

Min(a, b) == IF a < b THEN a ELSE b
Max(a, b) == IF a > b THEN a ELSE b

\* Option<usize> as a sequence of at most one element
UnwrapOr(opt, d) == IF opt = <<>> THEN d ELSE opt[1]

\* The i-th document of the index: its score for the query (BM25 with the field
\* boosts, in hundredths), whether its lower-cased path contains "test", and its
\* chunk_type.
DocBase(i) == CASE i = 1 -> 4000 [] i \in {2, 3, 4} -> 3000 [] OTHER -> 2000
DocTest(i) == i \in {2, 5}
DocKind(i) == CASE i = 1 -> "Function" [] i = 2 -> "Method" [] i = 3 -> "Class"
                [] i = 4 -> "Method" [] OTHER -> "Struct"

\* penalties that leave Class, Interface and Struct chunks alone
ApplyScorePenalties_NoKindPenalty(score, test, chunkType) ==
    IF test THEN (score * 5) \div 10 ELSE score

\* SearchIndex::apply_score_penalties
ApplyScorePenalties(score, test, chunkType) ==
    LET s1 == IF test THEN (score * 5) \div 10 ELSE score
    IN  IF chunkType \in {"Class", "Interface", "Struct"} THEN (s1 * 6) \div 10 ELSE s1

\* Vec::truncate
Truncate(s, n) == SubSeq(s, 1, Min(n, Len(s)))

\* x placed behind every element whose score is at least x's
RECURSIVE InsertDesc(_, _)
InsertDesc(x, s) ==
    IF s = <<>> THEN <<x>>
    ELSE IF Head(s).score >= x.score THEN <<Head(s)>> \o InsertDesc(x, Tail(s))
    ELSE <<x>> \o s

\* sort_by(|a, b| b.score.partial_cmp(&a.score)): a stable sort, highest score first
RECURSIVE SortDesc(_)
SortDesc(s) ==
    IF s = <<>> THEN <<>>
    ELSE InsertDesc(s[Len(s)], SortDesc(SubSeq(s, 1, Len(s) - 1)))

\* the ids of a set, lowest first
RECURSIVE Ascending(_)
Ascending(S) ==
    IF S = {} THEN <<>>
    ELSE LET m == CHOOSE x \in S : \A y \in S : x <= y
         IN  <<m>> \o Ascending(S \ {m})

\* searcher.search(&query, &TopDocs::with_limit(limit)): the limit best matches by
\* score, the lower document address first among equal scores
TopDocs(matching, limit) ==
    LET all == Ascending(matching)
    IN  Truncate(SortDesc([i \in 1..Len(all) |-> [id |-> all[i], score |-> DocBase(all[i])]]),
                 limit)

\* SearchIndex::search: the top documents, each with its penalised score, sorted
\* by that score
IndexSearch(matching, limit) ==
    LET top == TopDocs(matching, limit)
    IN  SortDesc([i \in 1..Len(top) |->
                    [id |-> top[i].id,
                     score |-> ApplyScorePenalties(top[i].score, DocTest(top[i].id),
                                                   DocKind(top[i].id))]])

\* usize::MAX, the machine word scaled down
UsizeMax == 15

Usize == 0..UsizeMax

\* `final_limit * 2` on usize leaves the word
MulOverflows(a, b) == a * b > UsizeMax

\* a * b on usize in a build without overflow checks: the product wraps
WrappingMul(a, b) == (a * b) % (UsizeMax + 1)

\* search_with_reranker, lines 141-148, where the multiplication does not panic
FetchLimit(enabled, minCandidates, finalLimit) ==
    IF enabled THEN Max(minCandidates, WrappingMul(finalLimit, 2)) ELSE finalLimit

\* fastembed's TextRerank::rerank, called at reranker.rs 316-319: one RerankResult
\* {document, score, index} per input document. The crate is not part of the
\* repository; the order of its results is either the order of the inputs or the
\* descending order of the scores (the crate's documented order).
ModelRerank(docs, rel, order) ==
    LET scored == [i \in 1..Len(docs) |-> [index |-> i, score |-> rel[docs[i].id]]]
    IN  IF order = "by_score" THEN SortDesc(scored) ELSE scored

\* a rerank that pairs and truncates but does not sort
RerankerRerank_NoSort(docs, rel, order, limit) ==
    LET res == ModelRerank(docs, rel, order)
    IN  Truncate([i \in 1..Min(Len(docs), Len(res)) |->
                     [id |-> docs[i].id, score |-> res[i].score]], limit)

\* Reranker::rerank, lines 312-340: the i-th document is paired with the score of
\* the i-th result (zip), the pairs are sorted by score and truncated
RerankerRerank(docs, rel, order, limit) ==
    LET res == ModelRerank(docs, rel, order)
        scoredDocs == [i \in 1..Min(Len(docs), Len(res)) |->
                          [id |-> docs[i].id, score |-> res[i].score]]
    IN  Truncate(SortDesc(scoredDocs), limit)

\* the bijections of 1..MaxDocs: a reranker's scores, no two alike
Relevances == {r \in [1..MaxDocs -> 1..MaxDocs] : \A i, j \in 1..MaxDocs : r[i] = r[j] => i = j}

SqFinalLimit == UnwrapOr(sq.limit, DefaultLimit)

\* search_with_reranker, lines 141-151: the limits, then index.search fetches the candidates
SqFetch ==
    /\ sq.pc = "start"
    /\ sq' = [sq EXCEPT !.pc = "fetched",
                        !.lexical = IndexSearch(sq.matching,
                                        FetchLimit(sq.enabled, sq.minCandidates, SqFinalLimit)),
                        !.results = IndexSearch(sq.matching,
                                        FetchLimit(sq.enabled, sq.minCandidates, SqFinalLimit))]
    /\ UNCHANGED engineVars

\* lines 154 and 208-213: no reranking, the results are truncated
SqTruncate ==
    /\ sq.pc = "fetched"
    /\ ~(sq.enabled /\ Len(sq.results) >= 2)
    /\ sq' = [sq EXCEPT !.pc = "done", !.ret = "ok",
                        !.results = Truncate(sq.results, SqFinalLimit)]
    /\ UNCHANGED engineVars

\* line 156: Reranker::new returns Ok
SqRerankerNew ==
    /\ sq.pc = "fetched"
    /\ sq.enabled /\ Len(sq.results) >= 2
    /\ sq' = [sq EXCEPT !.pc = "ready"]
    /\ UNCHANGED engineVars

\* line 156: Reranker::new returns Err (the model cannot be initialised), and the `?` returns it
SqRerankerNewFails ==
    /\ sq.pc = "fetched"
    /\ sq.enabled /\ Len(sq.results) >= 2
    /\ sq' = [sq EXCEPT !.pc = "done", !.ret = "err", !.failed = "new", !.results = <<>>]
    /\ UNCHANGED engineVars

\* lines 188-207: rerank returns Ok; its documents and scores become the results
SqRerank ==
    /\ sq.pc = "ready"
    /\ sq' = [sq EXCEPT !.pc = "done", !.ret = "ok", !.reranked = TRUE,
                        !.results = RerankerRerank(sq.results, sq.rel, sq.order, SqFinalLimit)]
    /\ UNCHANGED engineVars

\* line 188: rerank returns Err (the model call failed), and the `?` returns it
SqRerankFails ==
    /\ sq.pc = "ready"
    /\ sq' = [sq EXCEPT !.pc = "done", !.ret = "err", !.failed = "rerank", !.results = <<>>]
    /\ UNCHANGED engineVars

InitSearch ==
    /\ EngineInit
    /\ idx = NoIndex
    /\ \E m \in SUBSET (1..MaxDocs), lim \in {<<>>, <<1>>, <<2>>}, en \in BOOLEAN,
          mc \in {1, 4}, r \in Relevances, o \in {"by_input", "by_score"} :
          sq = [pc |-> "start", matching |-> m, limit |-> lim, enabled |-> en,
                minCandidates |-> mc, rel |-> r, order |-> o,
                lexical |-> <<>>, results |-> <<>>, ret |-> "none",
                failed |-> "no", reranked |-> FALSE]

NextSearch ==
    \/ SqFetch
    \/ SqTruncate
    \/ SqRerankerNew
    \/ SqRerankerNewFails
    \/ SqRerank
    \/ SqRerankFails

SpecSearch == InitSearch /\ [][NextSearch]_vars

----------------------------------------------------------------------------
(* search_with_reranker, lines 141-148: the limits, for every usize *)

\* lines 142-148 return a fetch_limit: the build has no overflow checks, or the
\* multiplication stays in the word
FlCompute ==
    /\ sq.pc = "fl_start"
    /\ ~(sq.checks /\ sq.enabled /\ MulOverflows(UnwrapOr(sq.limit, DefaultLimit), 2))
    /\ sq' = [sq EXCEPT !.pc = "fl_done", !.ret = "ok",
                        !.fetch = FetchLimit(sq.enabled, sq.minCandidates,
                                             UnwrapOr(sq.limit, DefaultLimit))]
    /\ UNCHANGED engineVars

\* line 145 in a build with overflow checks (the dev profile): the
\* multiplication panics with "attempt to multiply with overflow"
FlPanic ==
    /\ sq.pc = "fl_start"
    /\ sq.checks /\ sq.enabled /\ MulOverflows(UnwrapOr(sq.limit, DefaultLimit), 2)
    /\ sq' = [sq EXCEPT !.pc = "fl_done", !.ret = "panic"]
    /\ UNCHANGED engineVars

InitFetch ==
    /\ EngineInit
    /\ idx = NoIndex
    /\ \E lim \in {<<>>} \cup {<<n>> : n \in Usize}, mc \in Usize, en \in BOOLEAN,
          ch \in BOOLEAN :
          sq = [pc |-> "fl_start", limit |-> lim, minCandidates |-> mc, enabled |-> en,
                checks |-> ch, fetch |-> 0, ret |-> "none"]

NextFetch ==
    \/ FlCompute
    \/ FlPanic

SpecFetch == InitFetch /\ [][NextFetch]_vars

----------------------------------------------------------------------------
(* Text: a string is a sequence of one-character strings *)

UpperChars == <<"B", "D", "E", "G", "I", "R", "S", "T", "U", "Y">>
LowerChars == <<"b", "d", "e", "g", "i", "r", "s", "t", "u", "y">>

IsUpper(c) == \E i \in 1..Len(UpperChars) : UpperChars[i] = c
IsLower(c) == c \in {"a", "b", "d", "e", "g", "i", "j", "l", "m", "p", "r", "s", "t", "u", "y"}
IsDigit(c) == c \in {"0", "1", "2", "3", "4", "5", "6", "7", "8", "9"}

\* char::is_alphanumeric
IsAlphanumeric(c) == IsUpper(c) \/ IsLower(c) \/ IsDigit(c)

\* char::to_lowercase
ToLower(c) ==
    IF IsUpper(c) THEN LowerChars[CHOOSE i \in 1..Len(UpperChars) : UpperChars[i] = c] ELSE c

\* tantivy's LowerCaser on one token
LowerCaser(tok) == [i \in 1..Len(tok) |-> ToLower(tok[i])]

\* tantivy's RemoveLongFilter::limit(n): tokens of n bytes or more are dropped
RemoveLong(toks, n) == SelectSeq(toks, LAMBDA tok : Len(tok) < n)

\* tantivy's SimpleTokenizer: the maximal runs of alphanumeric characters;
\* cur is the run being read
RECURSIVE SimpleTokenizer(_, _)
SimpleTokenizer(s, cur) ==
    IF s = <<>> THEN (IF cur = <<>> THEN <<>> ELSE <<cur>>)
    ELSE IF IsAlphanumeric(Head(s)) THEN SimpleTokenizer(Tail(s), Append(cur, Head(s)))
    ELSE (IF cur = <<>> THEN <<>> ELSE <<cur>>) \o SimpleTokenizer(Tail(s), <<>>)

Range(s) == {s[i] : i \in 1..Len(s)}

\* tantivy's "default" analyzer, the tokenizer of a TEXT field: SimpleTokenizer,
\* RemoveLongFilter::limit(40), LowerCaser; the terms it gives a text
DefaultTerms(s) ==
    LET toks == RemoveLong(SimpleTokenizer(s, <<>>), 40)
    IN  {LowerCaser(toks[i]) : i \in 1..Len(toks)}

----------------------------------------------------------------------------
(* SearchIndex::search with a filetype filter *)

\* number of documents in the index
MaxFtDocs == 2

\* file extensions: rs, RS, j2, j2_tmpl, py and none
Exts == { <<"r", "s">>, <<"R", "S">>, <<"j", "2">>, <<"j", "2", "_", "t", "m", "p", "l">>,
          <<"p", "y">>, <<>> }

\* index_files, lines 230-233 and 247/262: a document of a file with extension e
\* is added; the filetype field is TEXT | STORED (line 77), so the extension is
\* stored as it is and indexed through the default analyzer. m: the document
\* matches the text query.
FtAddDocument(e, m) ==
    /\ sq.pc = "ft_indexing"
    /\ Cardinality(sq.docs) < MaxFtDocs
    /\ sq' = [sq EXCEPT !.docs = sq.docs \cup {[ext |-> e, terms |-> DefaultTerms(e), match |-> m]}]
    /\ sq' # sq
    /\ UNCHANGED engineVars

\* search, lines 313-329, with filetype Some(f): the text query ANDed with a
\* TermQuery on the filter string as it was given
FtSearchFiltered(f) ==
    /\ sq.pc = "ft_indexing"
    /\ sq' = [sq EXCEPT !.pc = "ft_searched", !.filter = <<f>>,
                        !.hits = {d \in sq.docs : d.match /\ f \in d.terms}]
    /\ UNCHANGED engineVars

\* search, lines 313-329, with filetype None
FtSearchAll ==
    /\ sq.pc = "ft_indexing"
    /\ sq' = [sq EXCEPT !.pc = "ft_searched", !.filter = <<>>,
                        !.hits = {d \in sq.docs : d.match}]
    /\ UNCHANGED engineVars

InitFilter ==
    /\ EngineInit
    /\ idx = NoIndex
    /\ sq = [pc |-> "ft_indexing", docs |-> {}, filter |-> <<>>, hits |-> {}]

NextFilter ==
    \/ \E e \in Exts, m \in BOOLEAN : FtAddDocument(e, m)
    \/ \E f \in Exts : FtSearchFiltered(f)
    \/ FtSearchAll

SpecFilter == InitFilter /\ [][NextFilter]_vars

----------------------------------------------------------------------------
(* The camel_case analyzer, at index and at query time *)

\* the class of the pattern a character falls in
CharClass(c) ==
    CASE IsLower(c) -> "a-z" [] IsUpper(c) -> "A-Z" [] IsDigit(c) -> "0-9" [] OTHER -> "other"

\* the longest prefix of s whose characters are all of one class
RECURSIVE TakeWhile(_, _)
TakeWhile(s, class) ==
    IF s = <<>> \/ CharClass(Head(s)) # class THEN <<>>
    ELSE <<Head(s)>> \o TakeWhile(Tail(s), class)

\* the match of [a-z]+|[A-Z][a-z]*|[0-9]+|[^a-zA-Z0-9]+ at the head of s
RegexMatch(s) ==
    CASE IsLower(Head(s)) -> TakeWhile(s, "a-z")
      [] IsUpper(Head(s)) -> <<Head(s)>> \o TakeWhile(Tail(s), "a-z")
      [] IsDigit(Head(s)) -> TakeWhile(s, "0-9")
      [] OTHER            -> TakeWhile(s, "other")

\* RegexTokenizer: the successive matches of the pattern
RECURSIVE RegexTokenizer(_)
RegexTokenizer(s) ==
    IF s = <<>> THEN <<>>
    ELSE LET tok == RegexMatch(s)
         IN  <<tok>> \o RegexTokenizer(SubSeq(s, Len(tok) + 1, Len(s)))

\* Stemmer::new(Language::English) on a lower-cased token, as far as the tokens of
\* the model go: a final s is dropped unless it follows s or u (step 1a of the
\* Snowball English stemmer)
Stemmer(tok) ==
    IF Len(tok) > 2 /\ tok[Len(tok)] = "s" /\ tok[Len(tok) - 1] \notin {"s", "u"}
    THEN SubSeq(tok, 1, Len(tok) - 1)
    ELSE tok

\* the camel_case analyzer (lines 47-62 and 131-145): RegexTokenizer,
\* RemoveLongFilter::limit(40), LowerCaser, and Stemmer when stemming is enabled
CamelCaseAnalyzer(s, stemming) ==
    LET toks == RemoveLong(RegexTokenizer(s), 40)
    IN  [i \in 1..Len(toks) |->
            IF stemming THEN Stemmer(LowerCaser(toks[i])) ELSE LowerCaser(toks[i])]

GetUserById == <<"g", "e", "t", "U", "s", "e", "r", "B", "y", "I", "d">>
Get_user_by_id == <<"g", "e", "t", "_", "u", "s", "e", "r", "_", "b", "y", "_", "i", "d">>
GET_USER_BY_ID == <<"G", "E", "T", "_", "U", "S", "E", "R", "_", "B", "Y", "_", "I", "D">>
GetUsersById == <<"g", "e", "t", "U", "s", "e", "r", "s", "B", "y", "I", "d">>
User == <<"u", "s", "e", "r">>

Identifiers == {GetUserById, Get_user_by_id, GET_USER_BY_ID, GetUsersById}
Queries == {GetUserById, User, <<"u", "s", "e", "r", "s">>, <<"b", "y">>}

\* index_files, lines 260-261: a document whose text is one identifier goes
\* through the analyzer of the declaration and body fields
TkAddDocument(text) ==
    /\ sq.pc = "tk_indexing"
    /\ sq' = [sq EXCEPT !.docs = sq.docs \cup
                            {[text |-> text, terms |-> CamelCaseAnalyzer(text, sq.stemming)]}]
    /\ sq' # sq
    /\ UNCHANGED engineVars

\* search, lines 299-313: the query parser runs the query through the same
\* analyzer; a document is a hit when every term of the query is among its
\* terms (the parser's phrase query asks for no less)
TkSearch(q) ==
    /\ sq.pc = "tk_indexing"
    /\ LET qterms == CamelCaseAnalyzer(q, sq.stemming)
       IN  sq' = [sq EXCEPT !.pc = "tk_searched", !.query = q, !.qterms = qterms,
                            !.hits = {d \in sq.docs : Range(qterms) \subseteq Range(d.terms)}]
    /\ UNCHANGED engineVars

InitTokens ==
    /\ EngineInit
    /\ idx = NoIndex
    /\ \E st \in BOOLEAN :
          sq = [pc |-> "tk_indexing", stemming |-> st, docs |-> {}, query |-> <<>>,
                qterms |-> <<>>, hits |-> {}]

NextTokens ==
    \/ \E text \in Identifiers : TkAddDocument(text)
    \/ \E q \in Queries : TkSearch(q)

SpecTokens == InitTokens /\ [][NextTokens]_vars

----------------------------------------------------------------------------
(* JavaProcessor::chunk_code over syntax trees *)

\* the declarations a class body holds at most
MaxMembers == 2

\* all sequences over S of length at most n
SeqsUpTo(S, n) == UNION {[1..k -> S] : k \in 0..n}

JavaContainers == {"class_declaration", "interface_declaration", "record_declaration"}

\* a declaration without rows: its node kind and the declarations of its body
Leaf(k) == [kind |-> k, kids |-> <<>>]
LeafMembers == {Leaf(k) : k \in {"field_declaration", "constructor_declaration",
                                  "method_declaration"}}
NestedClasses == {[kind |-> "class_declaration", kids |-> ms] : ms \in SeqsUpTo(LeafMembers, MaxMembers)}

\* a compilation unit: one top-level class, interface or record whose members
\* are fields, constructors, methods and nested classes
JavaShapes ==
    {[kind |-> "program",
      kids |-> <<[kind |-> k, kids |-> ms]>>] :
        k \in JavaContainers, ms \in SeqsUpTo(LeafMembers \cup NestedClasses, MaxMembers)}

\* the lines a declaration takes: a field one, a method or constructor three
\* (header, statement, closing brace), a container its members and two more
RECURSIVE ShapeLines(_)
RECURSIVE KidsLines(_)
ShapeLines(sh) ==
    CASE sh.kind = "field_declaration" -> 1
      [] sh.kind \in {"method_declaration", "constructor_declaration"} -> 3
      [] sh.kind = "program" -> KidsLines(sh.kids)
      [] OTHER -> 2 + KidsLines(sh.kids)
KidsLines(ks) == IF ks = <<>> THEN 0 ELSE ShapeLines(Head(ks)) + KidsLines(Tail(ks))

\* the tree tree-sitter gives for a source of that shape whose first line is
\* row: every node with its start and end row (start_position().row, end_position().row)
RECURSIVE ParseJava(_, _)
RECURSIVE ParseKids(_, _)
ParseJava(sh, row) ==
    [kind   |-> sh.kind,
     row    |-> row,
     endRow |-> row + ShapeLines(sh) - 1,
     kids   |-> ParseKids(sh.kids, IF sh.kind = "program" THEN row ELSE row + 1)]
ParseKids(ks, row) ==
    IF ks = <<>> THEN <<>>
    ELSE <<ParseJava(Head(ks), row)>> \o ParseKids(Tail(ks), row + ShapeLines(Head(ks)))

\* collect_chunks_recursively, lines 64-142, and traverse_children, lines 23-55:
\* a container pushes itself on the stack and walks its children, a
\* method_declaration (get_method_name finds its identifier) gives a Method
\* chunk and is not walked, every other node only walks its children
RECURSIVE CollectChunksRecursively(_)
RECURSIVE TraverseChildren(_)
CollectChunksRecursively(node) ==
    CASE node.kind \in JavaContainers -> TraverseChildren(node.kids)
      [] node.kind = "method_declaration" ->
            <<[chunk_type |-> "Method", start_line |-> node.row, end_line |-> node.endRow]>>
      [] OTHER -> TraverseChildren(node.kids)
TraverseChildren(ks) ==
    IF ks = <<>> THEN <<>>
    ELSE CollectChunksRecursively(Head(ks)) \o TraverseChildren(Tail(ks))

\* JavaProcessor::chunk_code, lines 458-494
JavaChunkCode(tree) == CollectChunksRecursively(tree)

\* chunk_code returns the chunks of a source
JvChunkCode ==
    /\ sq.pc = "jv_start"
    /\ sq' = [sq EXCEPT !.pc = "jv_done", !.chunks = JavaChunkCode(sq.tree)]
    /\ UNCHANGED engineVars

InitJava ==
    /\ EngineInit
    /\ idx = NoIndex
    /\ \E sh \in JavaShapes :
          sq = [pc |-> "jv_start", tree |-> ParseJava(sh, 0), chunks |-> <<>>]

NextJava == JvChunkCode

SpecJava == InitJava /\ [][NextJava]_vars

----------------------------------------------------------------------------
(* The chunkers over syntax trees: CodeChunker::chunk_code_for_indexing and
   the language processors *)

\* the bytes of one source line; every declaration of a tree starts its own
\* line, so a node's start byte is its row times the line width
LineBytes == 16

\* the orders in which the query cursor may hand over its matches: the
\* order belongs to tree-sitter, the chunker makes no assumption about it
MatchOrders == {"document", "reverse", "by_pattern"}

Reverse(s) == [i \in 1..Len(s) |-> s[Len(s) + 1 - i]]

\* the capture of the Java query that names the chunk node of a match:
\* @method, @class, @interface; a record, a constructor and a field match no
\* pattern
JavaQueryCapture(k) ==
    CASE k = "method_declaration" -> "Method"
      [] k = "class_declaration" -> "Class"
      [] k = "interface_declaration" -> "Interface"
      [] OTHER -> "None"

\* the chunk the loop body builds from the chunk node of a match
ChunkOfNode(node, type) ==
    [chunk_type |-> type, start_byte |-> node.row * LineBytes,
     start_line |-> node.row, end_line |-> node.endRow]

\* the chunks of every node a pattern of the query matches, anywhere in the
\* tree, in document order
RECURSIVE QueryChunks(_)
RECURSIVE QueryChunksOfKids(_)
QueryChunks(node) ==
    (IF JavaQueryCapture(node.kind) = "None" THEN <<>>
     ELSE <<ChunkOfNode(node, JavaQueryCapture(node.kind))>>)
        \o QueryChunksOfKids(node.kids)
QueryChunksOfKids(ks) ==
    IF ks = <<>> THEN <<>> ELSE QueryChunks(Head(ks)) \o QueryChunksOfKids(Tail(ks))

\* the chunks pushed by the loop over cursor.matches, in the cursor's order
MatchedChunks(tree, order) ==
    LET doc == QueryChunks(tree)
        Of(t) == SelectSeq(doc, LAMBDA c : c.chunk_type = t)
    IN  CASE order = "document" -> doc
          [] order = "reverse" -> Reverse(doc)
          [] OTHER -> Of("Method") \o Of("Class") \o Of("Interface")

\* Vec::sort_by_key(|c| c.start_byte): a stable sort, equal keys keep their order
RECURSIVE InsertByStartByte(_, _)
InsertByStartByte(c, s) ==
    IF s = <<>> THEN <<c>>
    ELSE IF s[Len(s)].start_byte <= c.start_byte THEN Append(s, c)
    ELSE Append(InsertByStartByte(c, SubSeq(s, 1, Len(s) - 1)), s[Len(s)])

RECURSIVE SortByStartByte(_)
SortByStartByte(s) ==
    IF s = <<>> THEN <<>>
    ELSE InsertByStartByte(s[Len(s)], SortByStartByte(SubSeq(s, 1, Len(s) - 1)))

\* the supported branch without its closing sort
ChunkCodeForIndexing_NoSort(tree, order) == MatchedChunks(tree, order)

\* chunk_code_for_indexing, the branch of a supported extension: one chunk for
\* each match, then the sort by start byte (the trees hold no import lines, so
\* is_mostly_imports drops nothing)
ChunkCodeForIndexing(tree, order) == SortByStartByte(MatchedChunks(tree, order))

SaturatingSub(a, b) == IF a >= b THEN a - b ELSE 0

\* a source line as the fallback sees it: an import-like line starts, after
\* trimming, with "import ", "use ", "from ", "#include" or "using "; a blank
\* line holds white space only
LineKinds == {"code", "blank", "import"}

\* filter_imports_static, lines 432-442: the lines that are not import-like
FilterImportsStatic(lines) == SelectSeq(lines, LAMBDA l : l # "import")

\* str::trim().is_empty() of the lines joined by "\n"
TrimIsEmpty(lines) == \A i \in 1..Len(lines) : lines[i] = "blank"

\* chunk_code_for_indexing, the branch of an unsupported extension: the whole
\* file as one chunk when something is left of it without its import-like
\* lines, no chunk otherwise
WholeFileChunk(lines) ==
    IF ~TrimIsEmpty(FilterImportsStatic(lines))
    THEN <<[chunk_type |-> "Other", name |-> "file", start_byte |-> 0, start_line |-> 0,
            end_line |-> SaturatingSub(Len(lines), 1),
            content |-> FilterImportsStatic(lines)]>>
    ELSE <<>>

\* the file has a supported extension and goes through the query
ChQuery ==
    /\ sq.pc = "ch_start"
    /\ \E order \in MatchOrders :
          sq' = [sq EXCEPT !.pc = "ch_done", !.processor = "CodeChunker", !.order = order,
                           !.chunks = ChunkCodeForIndexing(sq.tree, order)]
    /\ UNCHANGED engineVars

\* the file has an extension without a parser
ChWholeFile ==
    /\ sq.pc = "ch_start"
    /\ sq' = [sq EXCEPT !.pc = "ch_done", !.processor = "WholeFile",
                        !.chunks = WholeFileChunk([i \in 1..(sq.tree.endRow + 1) |-> "code"])]
    /\ UNCHANGED engineVars

\* the file goes through JavaProcessor::chunk_code
ChJavaProcessor ==
    /\ sq.pc = "ch_start"
    /\ sq' = [sq EXCEPT !.pc = "ch_done", !.processor = "JavaProcessor",
                        !.chunks = JavaChunkCode(sq.tree)]
    /\ UNCHANGED engineVars

InitChunks ==
    /\ EngineInit
    /\ idx = NoIndex
    /\ \E sh \in JavaShapes :
          sq = [pc |-> "ch_start", tree |-> ParseJava(sh, 0), processor |-> "none",
                order |-> "none", chunks |-> <<>>]

NextChunks ==
    \/ ChQuery
    \/ ChWholeFile
    \/ ChJavaProcessor

SpecChunks == InitChunks /\ [][NextChunks]_vars

----------------------------------------------------------------------------
(* chunk_code_for_indexing on files without a parser *)

\* the lines a file holds at most
MaxLines == 4

\* the file has an extension without a parser
WfChunkCodeForIndexing ==
    /\ sq.pc = "wf_start"
    /\ sq' = [sq EXCEPT !.pc = "wf_done", !.chunks = WholeFileChunk(sq.content)]
    /\ UNCHANGED engineVars

InitWholeFile ==
    /\ EngineInit
    /\ idx = NoIndex
    /\ \E c \in SeqsUpTo(LineKinds, MaxLines) :
          sq = [pc |-> "wf_start", content |-> c, chunks |-> <<>>]

NextWholeFile == WfChunkCodeForIndexing

SpecWholeFile == InitWholeFile /\ [][NextWholeFile]_vars

----------------------------------------------------------------------------
(* SearchIndex::extract_relevant_segment_with_context: the snippet of a
   whole-file hit *)

\* the lines of the content at most
MaxSnippetLines == 3

\* a content: the byte length of each of its lines (what str::lines yields,
\* without the line ending) and the bytes of its line ending, 1 for "\n", 2 for
\* "\r\n"
LineLens == {0, 2}
Eols == {1, 2}

\* the byte offset in the content of column col of line l (lines from 0)
RECURSIVE OffsetOf(_, _, _, _)
OffsetOf(lens, eol, l, col) ==
    IF l = 0 THEN col ELSE lens[1] + eol + OffsetOf(Tail(lens), eol, l - 1, col)

\* lines 577-587: the loop that looks for the line of fragment_offset, from line
\* i on with byte_count bytes before it; 0 when no line takes the offset
RECURSIVE FragmentLineIdx(_, _, _, _)
FragmentLineIdx(lens, offset, i, byte_count) ==
    IF i >= Len(lens) THEN 0
    ELSE LET line_end == byte_count + lens[i + 1]
         IN  IF offset >= byte_count /\ offset < line_end THEN i
             ELSE FragmentLineIdx(lens, offset, i + 1, line_end + 1)

\* `fragment_line_idx + context_lines + 1` leaves the word
AddOverflows(a, b) == a + b > UsizeMax

\* a + b on usize in a build without overflow checks
WrappingAdd(a, b) == (a + b) % (UsizeMax + 1)

\* lines 589-594: the lines of the segment, from start_line to end_line - 1
SegmentWindow(lens, offset, context_lines) ==
    LET l == FragmentLineIdx(lens, offset, 0, 0)
        start_line == SaturatingSub(l, context_lines)
        end_line == Min(WrappingAdd(l, WrappingAdd(context_lines, 1)), Len(lens))
    IN  [start_line |-> start_line, end_line |-> end_line]

\* the additions of line 590 stay in the word
SnAddsFit ==
    /\ ~AddOverflows(sq.context_lines, 1)
    /\ ~AddOverflows(FragmentLineIdx(sq.lens, sq.offset, 0, 0), sq.context_lines + 1)

\* the function returns the segment; the snippet's fragment occurs first at its
\* own offset, so content.find(fragment) gives that offset
SnExtract ==
    /\ sq.pc = "sn_start"
    /\ ~sq.checks \/ SnAddsFit
    /\ sq' = [sq EXCEPT !.pc = "sn_done", !.ret = "ok",
                        !.window = SegmentWindow(sq.lens, sq.offset, sq.context_lines)]
    /\ UNCHANGED engineVars

\* line 590 in a build with overflow checks: "attempt to add with overflow"
SnPanic ==
    /\ sq.pc = "sn_start"
    /\ sq.checks /\ ~SnAddsFit
    /\ sq' = [sq EXCEPT !.pc = "sn_done", !.ret = "panic"]
    /\ UNCHANGED engineVars

\* a content, the fragment tantivy chose in it (it starts at a token, so inside
\* a line that is not empty), and the caller's context_lines
InitSnippet ==
    /\ EngineInit
    /\ idx = NoIndex
    /\ \E lens \in SeqsUpTo(LineLens, MaxSnippetLines) \ {<<>>}, eol \in Eols,
          c \in {0, 1, UsizeMax}, ch \in BOOLEAN :
        \E l \in 0..(Len(lens) - 1) :
          \E col \in 0..(lens[l + 1] - 1) :
            sq = [pc |-> "sn_start", lens |-> lens, eol |-> eol, line |-> l,
                  offset |-> OffsetOf(lens, eol, l, col), context_lines |-> c,
                  checks |-> ch, ret |-> "none",
                  window |-> [start_line |-> 0, end_line |-> 0]]

NextSnippet ==
    \/ SnExtract
    \/ SnPanic

SpecSnippet == InitSnippet /\ [][NextSnippet]_vars

----------------------------------------------------------------------------
(* JavaProcessor::extract_method_with_context over source text *)

\* the containers around a method at most
MaxNesting == 2

\* a byte of the source: ch is what it stands for ("D" a doc comment, "C" a
\* container's header, "M" a method's header, "f" a field, "b" a statement,
\* the braces, ";", " " and "\n" themselves), of the container it belongs to
Byte(ch) == [ch |-> ch, of |-> 0]
ByteOf(ch, i) == [ch |-> ch, of |-> i]

\* what follows the opening brace of a container: a line break, a blank with
\* the first member on the same line, or a field right after the brace
AfterBrace == {"newline", "blank", "field"}

AfterBraceText(a) ==
    CASE a = "newline" -> <<Byte("\n")>>
      [] a = "blank" -> <<Byte(" ")>>
      [] OTHER -> <<Byte("f"), Byte(";"), Byte("\n")>>

\* with a body: `M { b }`; without (abstract, interface method): `M ;`
MethodText(body) ==
    IF body THEN <<Byte("M"), Byte("{"), Byte("b"), Byte("}"), Byte("\n")>>
    ELSE <<Byte("M"), Byte(";"), Byte("\n")>>

\* the source of a method inside the containers cs[i..], outermost first
RECURSIVE TextOf(_, _, _)
TextOf(cs, i, body) ==
    IF i > Len(cs) THEN MethodText(body)
    ELSE (IF cs[i].doc THEN <<ByteOf("D", i), Byte("\n")>> ELSE <<>>)
            \o <<ByteOf("C", i), Byte("{")>> \o AfterBraceText(cs[i].after)
            \o TextOf(cs, i + 1, body) \o <<Byte("}"), Byte("\n")>>

\* positions are counted from 1: position k is Rust's byte index k - 1
IndexOf(text, b) == CHOOSE k \in 1..Len(text) : text[k] = b

\* the first ch after position k
FirstAfter(text, k, ch) ==
    CHOOSE j \in (k + 1)..Len(text) :
        text[j].ch = ch /\ \A m \in (k + 1)..(j - 1) : text[m].ch # ch

\* get_line_start_index, lines 430-450: start_byte - start_column
GetLineStartIndex(text, k) ==
    IF \E j \in 1..(k - 1) : text[j].ch = "\n"
    THEN 1 + CHOOSE j \in 1..(k - 1) :
                text[j].ch = "\n" /\ \A m \in (j + 1)..(k - 1) : text[m].ch # "\n"
    ELSE 1

\* find_container_start_with_comments, lines 352-396: the first of the comments
\* that stand right before the container, or the container
FindContainerStartWithComments(text, i) ==
    IF \E k \in 1..Len(text) : text[k] = ByteOf("D", i)
    THEN IndexOf(text, ByteOf("D", i))
    ELSE IndexOf(text, ByteOf("C", i))

\* find_container_body_start, lines 400-427: `body_node.start_byte() + 1`, the
\* byte after the opening brace
FindContainerBodyStart(text, i) == FirstAfter(text, IndexOf(text, ByteOf("C", i)), "{") + 1

\* str::trim_end
RECURSIVE TrimEnd(_)
TrimEnd(t) ==
    IF t # <<>> /\ t[Len(t)].ch \in {" ", "\n"} THEN TrimEnd(SubSeq(t, 1, Len(t) - 1)) ELSE t

\* split_method_declaration_and_body, lines 282-348: with a block, the text from
\* the start of the method's line to `body_start + 1`, the opening brace, and
\* the block without its opening brace; without, the method's text and ""
SplitMethodDeclarationAndBody(text) ==
    LET m == IndexOf(text, Byte("M"))
    IN  IF text[m + 1].ch = "{"
        THEN [declaration |-> SubSeq(text, GetLineStartIndex(text, m), m + 1),
              content |-> SubSeq(text, m + 2, FirstAfter(text, m + 1, "}"))]
        ELSE [declaration |-> SubSeq(text, m, FirstAfter(text, m, ";")),
              content |-> <<>>]

\* lines 209-246: the headers of the containers of the stack from i on, a "\n"
\* before each but the first, each `content[line_start_index..body_start + 1]`
RECURSIVE ContainerHeaders(_, _, _)
ContainerHeaders(text, i, n) ==
    IF i > n THEN <<>>
    ELSE (IF i > 1 THEN <<Byte("\n")>> ELSE <<>>)
            \o SubSeq(text,
                      GetLineStartIndex(text, FindContainerStartWithComments(text, i)),
                      FindContainerBodyStart(text, i))
            \o ContainerHeaders(text, i + 1, n)

\* extract_method_with_context, lines 197-260: the stack holds n containers
ExtractMethodWithContext(text, n) ==
    LET split == SplitMethodDeclarationAndBody(text)
    IN  [declaration |-> TrimEnd(ContainerHeaders(text, 1, n) \o split.declaration),
         content |-> split.content]

\* collect_chunks_recursively reaches the method with its containers on the stack
JdExtract ==
    /\ sq.pc = "jd_start"
    /\ sq' = [sq EXCEPT !.pc = "jd_done",
                        !.chunk = ExtractMethodWithContext(sq.text, sq.depth)]
    /\ UNCHANGED engineVars

InitJavaDecl ==
    /\ EngineInit
    /\ idx = NoIndex
    /\ \E cs \in SeqsUpTo([doc : BOOLEAN, after : AfterBrace], MaxNesting) \ {<<>>},
          body \in BOOLEAN :
          sq = [pc |-> "jd_start", text |-> TextOf(cs, 1, body), depth |-> Len(cs),
                chunk |-> [declaration |-> <<>>, content |-> <<>>]]

NextJavaDecl == JdExtract

SpecJavaDecl == InitJavaDecl /\ [][NextJavaDecl]_vars

----------------------------------------------------------------------------
(* SearchIndex::index_files, thread by thread: the closures of the rayon
   scope, the two channels, the writer loop and the caller's iterator *)

\* the documents of a file in the order the closure sends them
DocSeq(p, f) ==
    IF f.nchunks = 0
    THEN <<[path |-> p, ver |-> f.mtime, k |-> 0, ctype |-> "file"]>>
    ELSE [i \in 1..f.nchunks |-> [path |-> p, ver |-> f.mtime, k |-> i, ctype |-> "chunk"]]

\* the elements of a sequence
Elems(q) == {q[i] : i \in 1..Len(q)}

\* a doc channel of capacity one, as mpsc::sync_channel(1) would be
DocChannelHasRoom_SyncChannel(chan) == Len(chan) < 1

\* the capacity of doc_tx: mpsc::channel() has none
DocChannelHasRoom(chan) == TRUE

\* lines 207-236: the closure of file p starts, reads the file once and takes
\* its early returns; otherwise the chunker has returned its chunks
PwRead(p) ==
    /\ sq.pc = "scope"
    /\ sq.st[p] = "spawned"
    /\ sq' = [sq EXCEPT !.st[p] = IF ShouldSkip(sq.content[p]) THEN "finished" ELSE "chunked"]
    /\ UNCHANGED engineVars

\* line 240: path_tx.send(file_path.clone())
PwSendPath(p) ==
    /\ sq.pc = "scope"
    /\ sq.st[p] = "chunked"
    /\ sq' = [sq EXCEPT !.st[p] = "sending", !.pathChan = Append(@, p)]
    /\ UNCHANGED engineVars

\* lines 242-268: one doc_tx.send(doc); a send blocks while the channel has no
\* room; the closure returns after its last one
PwSendDoc(p) ==
    /\ sq.pc = "scope"
    /\ sq.st[p] = "sending"
    /\ DocChannelHasRoom(sq.docChan)
    /\ LET docs == DocSeq(p, sq.content[p])
           n == sq.sent[p] + 1
       IN  sq' = [sq EXCEPT !.sent[p] = n,
                            !.docChan = Append(@, docs[n]),
                            !.st[p] = IF n = Len(docs) THEN "finished" ELSE "sending"]
    /\ UNCHANGED engineVars

\* lines 193 and 271-273: rayon::scope returns when every closure has
\* returned; both senders are dropped
PipeJoin ==
    /\ sq.pc = "scope"
    /\ \A p \in sq.batch : sq.st[p] = "finished"
    /\ sq' = [sq EXCEPT !.pc = "drain"]
    /\ UNCHANGED engineVars

\* lines 276-278: the writer loop takes one document and add_document returns Ok
PipeAddDocument ==
    /\ sq.pc = "drain"
    /\ sq.docChan # <<>>
    /\ sq' = [sq EXCEPT !.added = Append(@, Head(sq.docChan)), !.docChan = Tail(@)]
    /\ UNCHANGED engineVars

\* line 278: add_document returns Err, the `?` returns it
PipeAddDocumentFails ==
    /\ sq.pc = "drain"
    /\ sq.docChan # <<>>
    /\ sq' = [sq EXCEPT !.pc = "error", !.docChan = Tail(@)]
    /\ UNCHANGED engineVars

\* lines 276-284: doc_rx is closed and empty, the loop ends; commit returns Ok
\* and index_files returns the iterator over path_rx
PipeCommit ==
    /\ sq.pc = "drain"
    /\ sq.docChan = <<>>
    /\ sq' = [sq EXCEPT !.pc = "returned"]
    /\ UNCHANGED engineVars

\* line 281: commit returns Err
PipeCommitFails ==
    /\ sq.pc = "drain"
    /\ sq.docChan = <<>>
    /\ sq' = [sq EXCEPT !.pc = "error"]
    /\ UNCHANGED engineVars

\* the caller's `for file in indexed_files`: one path
PipeNextPath ==
    /\ sq.pc = "returned"
    /\ sq.pathChan # <<>>
    /\ sq' = [sq EXCEPT !.yielded = Append(@, Head(sq.pathChan)), !.pathChan = Tail(@)]
    /\ UNCHANGED engineVars

\* path_rx is closed and empty: the iterator ends
PipeIterEnd ==
    /\ sq.pc = "returned"
    /\ sq.pathChan = <<>>
    /\ sq' = [sq EXCEPT !.pc = "end"]
    /\ UNCHANGED engineVars

\* index_files is called with a batch of files; every closure is spawned
InitPipe ==
    /\ EngineInit
    /\ idx = NoIndex
    /\ \E B \in SUBSET Paths \ {{}} :
        \E c \in [B -> {FileOf(sh, 1) : sh \in Shapes} \cup {NoFile}] :
          sq = [pc |-> "scope", batch |-> B, content |-> c,
                st |-> [p \in B |-> "spawned"], sent |-> [p \in B |-> 0],
                docChan |-> <<>>, pathChan |-> <<>>, added |-> <<>>, yielded |-> <<>>]

NextPipe ==
    \/ \E p \in sq.batch : PwRead(p)
    \/ \E p \in sq.batch : PwSendPath(p)
    \/ \E p \in sq.batch : PwSendDoc(p)
    \/ PipeJoin
    \/ PipeAddDocument
    \/ PipeAddDocumentFails
    \/ PipeCommit
    \/ PipeCommitFails
    \/ PipeNextPath
    \/ PipeIterEnd

SpecPipe == InitPipe /\ [][NextPipe]_vars

\* the same with threads that are scheduled: a step that stays possible is
\* taken in the end
SpecPipeLive == SpecPipe /\ WF_vars(NextPipe)

----------------------------------------------------------------------------
(* Properties of the indexing protocol *)

\* the committed documents that carry path p
DocsOf(p) == {d \in idx.docs : d.path = p}

\* the paths that have a committed document
IndexedPaths == {p \in Paths : DocsOf(p) # {}}

\* an engine run has returned Ok after saving the fingerprint store
SavedRun ==
    /\ pc = "done"
    /\ result = "ok"
    /\ kind \in {"ensure", "rebuild"}
    /\ committed

\* C1, as claimed: a search made while a build is under way sees exactly the
\* documents of the previous commit or exactly those of the build's commit.
C1_SeesPreviousOrNew ==
    (committed /\ obs.phase # "none" /\ obs.ok) => obs.docs \in {prevDocs, idx.docs}

\* C1, amended: a search made while ensure_index_updated runs sees exactly the
\* previous commit's documents until commit returns and exactly the new commit's
\* documents afterwards, never a mixture; while rebuild_index runs, a search made
\* between the removal of the directory and the commit fails to open the index or
\* sees the empty index SearchIndex::new created. A search fails to open only
\* where no index exists.
C1_CommitAtomicity ==
    obs.phase # "none" =>
        /\ obs.ok /\ obs.phase = "building" =>
               \/ obs.docs = prevDocs
               \/ kind = "rebuild" /\ obs.docs = {}
        /\ obs.ok /\ obs.phase = "built" => obs.docs = idx.docs
        /\ ~obs.ok => obs.phase = "building" /\ (kind = "rebuild" \/ prevDocs = {})

\* a search after the commit of an incremental run saw the old and the new documents
C1_Witness ==
    /\ kind = "ensure"
    /\ obs.phase = "built"
    /\ obs.ok
    /\ prevDocs # {}
    /\ obs.docs # prevDocs

\* C2: update_file and save run only after commit has returned Ok; a run that
\* ends in an error (add_document or commit failed) has not committed and its
\* failing step leaves the fingerprint store, in memory and on disk, as it was.
C2_FingerprintAfterCommit ==
    [][ /\ metaDisk' # metaDisk => (~metaDisk'.present \/ (committed /\ pc = "save"))
        /\ meta' # meta => (committed \/ pc \in {"idle", "done", "e_scanned"})
        /\ result' = "err" => (~committed' /\ metaDisk' = metaDisk /\ meta' = meta)
      ]_vars

\* commit failed in an incremental run that had read a file to index, and the
\* store on disk is still there
C2_Witness ==
    /\ kind = "ensure"
    /\ pc = "done"
    /\ result = "err"
    /\ metaDisk.present
    /\ \E p \in batch : Exists(readRec[p]) /\ readRec[p].utf8

\* C3: when ensure_index_updated has completed, the committed documents of every
\* file of the batch that was not skipped (and has not changed since the worker
\* read it) are exactly the chunks of the file's current content.
C3_IncrementalSync ==
    (SavedRun /\ kind = "ensure") =>
        \A p \in batch :
            (fs[p] = readRec[p] /\ ~ShouldSkip(fs[p])) => DocsOf(p) = ChunkDocs(p, fs[p])

\* C4: after a saved run with no change to the files, needs_reindex over the
\* walker's files is empty.
C4_FingerprintDeterminism ==
    (SavedRun /\ fsQuiet) => NeedsReindex(Load(metaDisk), Walk) = {}

\* C5: after a saved run the keys of the fingerprint store are the files with
\* committed documents, and a file skipped in the batch has no entry.
C5_KeysAreIndexedFiles ==
    (SavedRun /\ fsQuiet) =>
        /\ Keys(metaDisk.files) = IndexedPaths
        /\ \A p \in batch : ShouldSkip(readRec[p]) => p \notin Keys(metaDisk.files)

\* the claim's per-file failures, of the file a worker read
C6_Unusable(f) ==
    \/ ~Exists(f)
    \/ ~f.utf8
    \/ f.size > MAX_FILE_SIZE
    \/ f.maxline > MAX_LINE_LENGTH
    \/ ~f.parse

\* C6: when the workers are done, the path stream holds exactly the files that
\* did not fail and the writer is handed exactly their documents; once the batch
\* is committed, a failed file has no document in the batch and every other
\* file has all of its documents committed.
C6_SkippedFilesLeaveNothing ==
    /\ pc = "commit" =>
          /\ pathChan = {p \in batch : ~C6_Unusable(readRec[p])}
          /\ pending = UNION {ChunkDocs(p, readRec[p]) : p \in pathChan}
    /\ committed =>
          \A p \in batch :
              IF C6_Unusable(readRec[p])
              THEN \A d \in idx.docs \ prevDocs : d.path # p
              ELSE ChunkDocs(p, readRec[p]) \subseteq idx.docs

\* a committed batch of one failed file (it was there to read) and one indexed file
C6_Witness ==
    /\ committed
    /\ \E p \in batch, q \in batch :
          /\ Exists(readRec[p])
          /\ C6_Unusable(readRec[p])
          /\ ~C6_Unusable(readRec[q])

\* C7: when the caller has dropped the path iterator before its end, the batch
\* is not committed: the index holds what it held before.
C7_DropDiscardsBatch ==
    dropped => idx.docs = prevDocs

\* C8: ensure_index_updated never indexes on an index whose on-disk schema is not
\* the code's schema (open fails on it), and an incremental run that found
\* changes leaves an index rebuilt with the code's schema.
C8_SchemaMismatchRebuilds ==
    /\ pc \in {"workers", "commit", "returned", "e_update_all", "save"} =>
          idx.schema = CodeSchema
    /\ (kind = "ensure" /\ pc = "done" /\ batch # {}) =>
          (idx.exists /\ idx.schema = CodeSchema)

----------------------------------------------------------------------------
(* Properties of search_with_reranker *)

\* C9: when reranking is enabled and the reranker fails, the call still returns
\* Ok with the adjusted lexical ranking truncated to final_limit.
C9_RerankerFailureFallsBack ==
    (sq.pc = "done" /\ sq.failed # "no") =>
        /\ sq.ret = "ok"
        /\ sq.results = Truncate(sq.lexical, SqFinalLimit)

\* the candidates in the reranker's order, best first, each with the reranker's
\* score for it
C10_ByRelevance(cands, rel) ==
    SortDesc([i \in 1..Len(cands) |-> [id |-> cands[i].id, score |-> rel[cands[i].id]]])

\* C10: when the results were reranked, they are the first final_limit candidates
\* in the reranker's descending order, each with the reranker's score for that
\* candidate.
C10_RerankReplacesScores ==
    (sq.pc = "done" /\ sq.reranked) =>
        sq.results = Truncate(C10_ByRelevance(sq.lexical, sq.rel), SqFinalLimit)

----------------------------------------------------------------------------
(* Properties of the limits *)

\* C11: for every final_limit and min_candidates of the machine word, the number
\* of candidates fetched is max(min_candidates, final_limit * 2) when reranking
\* is enabled and final_limit when it is not (final_limit being 5 without a limit).
C11_FetchLimit ==
    sq.pc = "fl_done" =>
        /\ sq.ret = "ok"
        /\ sq.fetch = IF sq.enabled
                      THEN Max(sq.minCandidates, UnwrapOr(sq.limit, DefaultLimit) * 2)
                      ELSE UnwrapOr(sq.limit, DefaultLimit)

----------------------------------------------------------------------------
(* Properties of SearchIndex::search *)

\* the ids of the hits of a list
HitIds(list) == {list[i].id : i \in 1..Len(list)}

\* the rank of a hit in a list, 1 the best
RankOf(list, d) == CHOOSE i \in 1..Len(list) : list[i].id = d

ContainerKinds == {"Class", "Interface", "Struct"}

\* every hit carries its base score times 0.5 for a test path and times 0.6 for a
\* Class, Interface or Struct, both factors composing; of two hits that differ
\* only in the test path, the one in the test path does not score higher
C12_Penalties(list) ==
    /\ \A i \in 1..Len(list) :
          list[i].score * 100 =
              DocBase(list[i].id) * (IF DocTest(list[i].id) THEN 5 ELSE 10)
                                  * (IF DocKind(list[i].id) \in ContainerKinds THEN 6 ELSE 10)
    /\ \A i, j \in 1..Len(list) :
          (/\ DocBase(list[i].id) = DocBase(list[j].id)
           /\ DocKind(list[i].id) = DocKind(list[j].id)
           /\ DocTest(list[i].id) /\ ~DocTest(list[j].id)) => list[i].score <= list[j].score

\* C12, as claimed: the penalties, and for two matching documents of identical
\* base score, a Class and a Method, the Method is in the returned list at a
\* rank at least as high as the Class.
C12_MethodOutranksClass ==
    sq.pc = "fetched" =>
        /\ C12_Penalties(sq.lexical)
        /\ \A c, m \in sq.matching :
              (/\ DocBase(c) = DocBase(m)
               /\ DocKind(c) = "Class" /\ DocKind(m) = "Method"
               /\ c \in HitIds(sq.lexical)) =>
                  /\ m \in HitIds(sq.lexical)
                  /\ RankOf(sq.lexical, m) < RankOf(sq.lexical, c)

\* C12, amended: the penalties, and for two returned hits of identical base
\* score, a Class and a Method that are both or neither in a test path, the
\* Method is ranked above the Class.
C12_PenaltyMonotonicity ==
    sq.pc = "fetched" =>
        /\ C12_Penalties(sq.lexical)
        /\ \A c, m \in HitIds(sq.lexical) :
              (/\ DocBase(c) = DocBase(m)
               /\ DocKind(c) = "Class" /\ DocKind(m) = "Method"
               /\ DocTest(c) = DocTest(m)) =>
                  RankOf(sq.lexical, m) < RankOf(sq.lexical, c)

\* search returned a Class and a Method of one base score and one test status,
\* and a test and a non-test hit that are otherwise alike
C12_Witness ==
    /\ sq.pc = "fetched"
    /\ \E c, m \in HitIds(sq.lexical) :
          /\ DocBase(c) = DocBase(m)
          /\ DocKind(c) = "Class" /\ DocKind(m) = "Method"
          /\ DocTest(c) = DocTest(m)
    /\ \E a, b \in HitIds(sq.lexical) :
          /\ DocBase(a) = DocBase(b)
          /\ DocKind(a) = DocKind(b)
          /\ DocTest(a) /\ ~DocTest(b)

\* no hit of a list scores higher than the hit before it
Descending(list) == \A i \in 1..Len(list) - 1 : list[i].score >= list[i + 1].score

\* C13: the list SearchIndex::search returns is in non-increasing score order
\* and no longer than its limit, and the list search_with_reranker returns, with
\* or without reranking, is in non-increasing score order and no longer than
\* final_limit.
C13_DescendingAndBounded ==
    /\ sq.pc # "start" =>
          /\ Descending(sq.lexical)
          /\ Len(sq.lexical) <= FetchLimit(sq.enabled, sq.minCandidates, SqFinalLimit)
    /\ (sq.pc = "done" /\ sq.ret = "ok") =>
          /\ Descending(sq.results)
          /\ Len(sq.results) <= SqFinalLimit

\* a reranked call that had more candidates than final_limit and returned at
\* least two results, the reranker disagreeing with the lexical order
C13_Witness ==
    /\ sq.pc = "done"
    /\ sq.reranked
    /\ Len(sq.lexical) > SqFinalLimit
    /\ Len(sq.results) >= 2
    /\ sq.rel[sq.lexical[1].id] < sq.rel[sq.lexical[2].id]

----------------------------------------------------------------------------
(* Properties of the filetype filter *)

\* C14: every hit of a search with filter f has a stored extension equal to f.
C14_FilterStrict ==
    (sq.pc = "ft_searched" /\ sq.filter # <<>>) =>
        \A d \in sq.hits : d.ext = sq.filter[1]

----------------------------------------------------------------------------
(* Properties of the analyzer *)

\* C15: the queries getUserById and user match the documents getUserById,
\* get_user_by_id and GET_USER_BY_ID: the terms of the query are among the
\* indexed terms of each of them.
C15_IdentifierTokenization ==
    (sq.pc = "tk_searched" /\ sq.query \in {GetUserById, User}) =>
        \A d \in sq.docs :
            d.text \in {GetUserById, Get_user_by_id, GET_USER_BY_ID} => d \in sq.hits

----------------------------------------------------------------------------
(* Properties of the fingerprint file *)

\* C16: load never returns an error: on a missing and on a corrupt file it
\* returns the empty store, and ensure_index_updated goes on to reindex every
\* file of the walk.
C16_LoadFallsBack ==
    /\ result # "load_err"
    /\ (kind = "ensure" /\ pc = "e_open" /\ (~metaDisk.present \/ ~metaDisk.whole)) =>
          (meta = EmptyStore /\ batch = files)

\* C17: after a save that was interrupted, metadata.bin holds a complete store,
\* the previous one or the new one.
C17_SaveAtomic ==
    result = "killed" => (metaDisk.whole /\ (metaDisk.present => metaDisk.files = meta))

----------------------------------------------------------------------------
(* Properties of the caps *)

\* C18: when the workers are done, a valid UTF-8 file of the batch has been
\* skipped if and only if it is longer than 524288 bytes or has a line longer
\* than 8192 bytes.
C18_SizeThresholds ==
    pc = "commit" =>
        \A p \in batch :
            (Exists(readRec[p]) /\ readRec[p].utf8 /\ readRec[p].parse) =>
                (p \notin pathChan <=>
                    (readRec[p].size > 524288 \/ readRec[p].maxline > 8192))

----------------------------------------------------------------------------
(* Properties of the Java chunker *)

\* one Class chunk for each class, interface and record, one Method chunk for
\* each method and constructor, in source order, a container before its members
RECURSIVE C19_Expected(_)
RECURSIVE C19_ExpectedKids(_)
C19_Expected(node) ==
    CASE node.kind \in JavaContainers ->
            <<[chunk_type |-> "Class", start_line |-> node.row, end_line |-> node.endRow]>>
                \o C19_ExpectedKids(node.kids)
      [] node.kind \in {"method_declaration", "constructor_declaration"} ->
            <<[chunk_type |-> "Method", start_line |-> node.row, end_line |-> node.endRow]>>
      [] OTHER -> C19_ExpectedKids(node.kids)
C19_ExpectedKids(ks) ==
    IF ks = <<>> THEN <<>> ELSE C19_Expected(Head(ks)) \o C19_ExpectedKids(Tail(ks))

\* C19: chunk_code returns exactly one Class chunk for each class, interface and
\* record declaration, nested ones included, and exactly one Method chunk for
\* each method and constructor, the Class chunk of a container first.
C19_JavaChunkCoverage ==
    sq.pc = "jv_done" => sq.chunks = C19_Expected(sq.tree)

----------------------------------------------------------------------------
(* Properties of the chunk order *)

\* chunk d comes from a declaration inside the container that gave chunk c
C20_Inside(c, d) ==
    /\ c.chunk_type \in ContainerKinds
    /\ c.start_line < d.start_line
    /\ d.end_line <= c.end_line

\* C20: the chunks a chunker returns have non-decreasing start_line, the chunk
\* of a container stands before every chunk that comes from its children, and
\* every chunk has start_line <= end_line.
C20_ChunkOrdering ==
    sq.pc = "ch_done" =>
        /\ \A i, j \in 1..Len(sq.chunks) :
              i < j => sq.chunks[i].start_line <= sq.chunks[j].start_line
        /\ \A i, j \in 1..Len(sq.chunks) :
              C20_Inside(sq.chunks[i], sq.chunks[j]) => i < j
        /\ \A i \in 1..Len(sq.chunks) : sq.chunks[i].start_line <= sq.chunks[i].end_line

\* the query chunker, handed its matches in another order than the source's,
\* has returned a class chunk, the chunks of two of its methods and the chunk of
\* a nested class between them
C20_Witness ==
    /\ sq.pc = "ch_done"
    /\ sq.processor = "CodeChunker"
    /\ sq.order # "document"
    /\ Len(sq.chunks) >= 4
    /\ sq.chunks[1].chunk_type = "Class"
    /\ \E i, j, k \in 2..Len(sq.chunks) :
          /\ i < j /\ j < k
          /\ sq.chunks[i].chunk_type = "Class"
          /\ sq.chunks[j].chunk_type = "Method"
          /\ sq.chunks[k].chunk_type = "Method"
          /\ C20_Inside(sq.chunks[1], sq.chunks[i])
          /\ C20_Inside(sq.chunks[i], sq.chunks[j])
          /\ C20_Inside(sq.chunks[1], sq.chunks[k])
          /\ ~C20_Inside(sq.chunks[i], sq.chunks[k])

----------------------------------------------------------------------------
(* Properties of the lexical result list *)

\* the score SearchIndex::search would give document d
C29_Adjusted(d) == ApplyScorePenalties(DocBase(d), DocTest(d), DocKind(d))

\* C29: with reranking disabled, no matching document left out of the returned
\* list has a strictly higher adjusted score than a document in the list.
C29_BestByAdjustedScore ==
    (sq.pc = "done" /\ ~sq.enabled /\ sq.ret = "ok") =>
        \A d \in sq.matching \ HitIds(sq.results) :
            \A e \in HitIds(sq.results) : C29_Adjusted(d) <= C29_Adjusted(e)

----------------------------------------------------------------------------
(* Properties of the full rebuild *)

\* C23: when rebuild_index has returned Ok, every document of the index was
\* built in this run from a file the walker yielded, and every entry of the
\* fingerprint store, in memory and on disk, was written in this run for a
\* path whose documents this run committed: nothing from before survives.
C23_RebuildErasesBoth ==
    (kind = "rebuild" /\ pc = "done" /\ result = "ok") =>
        /\ \A d \in idx.docs :
              /\ d.path \in files
              /\ ~ShouldSkip(readRec[d.path])
              /\ d \in ChunkDocs(d.path, readRec[d.path])
        /\ metaDisk = [present |-> TRUE, files |-> meta, whole |-> TRUE]
        /\ \A p \in Keys(meta) : p \in files /\ ~ShouldSkip(readRec[p])

\* a rebuild has returned Ok on a root where a file indexed before has been
\* deleted: its documents are gone, its path has no fingerprint, and the index
\* holds the documents of the file that is left
C23_Witness ==
    /\ kind = "rebuild" /\ pc = "done" /\ result = "ok"
    /\ idx.docs # {}
    /\ Keys(metaDisk.files) # {}
    /\ \E d \in prevDocs : d.path \notin files /\ d.path \notin Keys(metaDisk.files)

----------------------------------------------------------------------------
(* Properties of the committed paths *)

\* C24: a commit leaves no document in the index whose file had been deleted
\* when the commit was made; checked for the runs during which no file
\* changes, so that every deleted file was deleted before the run began.
C24_CommittedPathsExist ==
    [][(~committed /\ committed' /\ fsQuiet') =>
            \A d \in idx'.docs : Exists(fs'[d.path])]_vars

----------------------------------------------------------------------------
(* Properties of the pipeline of index_files *)

\* the documents sent on doc_tx so far
C26_SentDocs == Elems(sq.docChan) \cup Elems(sq.added)

\* C26: a path is on the path stream only when all the documents of its file
\* have been sent to the writer channel.
C26_DocsBeforePath ==
    \A p \in Elems(sq.pathChan) \cup Elems(sq.yielded) :
        Elems(DocSeq(p, sq.content[p])) \subseteq C26_SentDocs

\* the bound a bounded doc channel would have at least
DocChannelBound == 2

\* C27: the documents buffered between the workers and the writer never
\* exceed a bound fixed in advance, whatever the batch.
C27_BoundedChannel == Len(sq.docChan) <= DocChannelBound

\* the paths whose closure took no early return
C30_Processed == {p \in sq.batch : ~ShouldSkip(sq.content[p])}

\* C30: index_files ends: every closure returns, the writer takes every
\* document sent, and the call reaches the commit or returns an error; when it
\* has returned Ok the path stream ends after it has yielded every processed
\* path once and no other path.
C30_Terminates ==
    /\ <>(sq.pc \in {"end", "error"})
    /\ [](sq.pc \in {"drain", "returned", "end", "error"} =>
              \A p \in sq.batch : sq.st[p] = "finished")
    /\ [](sq.pc \in {"returned", "end"} =>
              /\ sq.docChan = <<>>
              /\ Elems(sq.added) = UNION {Elems(DocSeq(p, sq.content[p])) : p \in C30_Processed}
              /\ Len(sq.pathChan) + Len(sq.yielded) = Cardinality(C30_Processed))
    /\ [](sq.pc = "end" =>
              /\ Elems(sq.yielded) = C30_Processed
              /\ Len(sq.yielded) = Cardinality(C30_Processed))

\* a call on two files of two chunks each has ended: four documents went
\* through the writer and both paths came out of the stream
C30_Witness ==
    /\ sq.pc = "end"
    /\ Len(sq.added) = 4
    /\ Len(sq.yielded) = 2

----------------------------------------------------------------------------
(* Properties of the fingerprints of the indexed versions *)

\* C28: after a commit and the save that follows it, the size and mtime stored
\* for a file of the batch are those of the version its worker read and
\* indexed, so that a file modified after the read is still reported as changed.
C28_FingerprintOfIndexedVersion ==
    SavedRun =>
        \A p \in batch :
            (~ShouldSkip(readRec[p]) /\ metaDisk.files[p] # NoEntry) =>
                /\ metaDisk.files[p].size = readRec[p].size
                /\ metaDisk.files[p].mtime = readRec[p].mtime
                /\ fs[p] # readRec[p] => FileChanged(metaDisk.files, p)

----------------------------------------------------------------------------
(* Properties of the whole-file fallback *)

\* C22: for a file without a processor chunk_code_for_indexing returns one
\* chunk, of kind Other, named "file", from line 0 to the last line, whenever
\* content.trim() is not empty, and no chunk only when content.trim() is empty.
C22_WholeFileFallback ==
    sq.pc = "wf_done" =>
        IF TrimIsEmpty(sq.content)
        THEN sq.chunks = <<>>
        ELSE /\ Len(sq.chunks) = 1
             /\ sq.chunks[1].chunk_type = "Other"
             /\ sq.chunks[1].name = "file"
             /\ sq.chunks[1].start_line = 0
             /\ sq.chunks[1].end_line = Len(sq.content) - 1

----------------------------------------------------------------------------
(* Properties of the snippet window *)

\* C25: the snippet of a whole-file hit is made of the lines max(0, l - c) to
\* min(last, l + c), l the line that holds the start of the fragment and c the
\* context_lines: it holds line l and at most 2c + 1 lines.
C25_SnippetWindow ==
    sq.pc = "sn_done" =>
        /\ sq.ret = "ok"
        /\ sq.window.start_line = Max(0, sq.line - sq.context_lines)
        /\ sq.window.end_line - 1 = Min(Len(sq.lens) - 1, sq.line + sq.context_lines)
        /\ sq.window.start_line <= sq.line /\ sq.line < sq.window.end_line
        /\ sq.window.end_line - sq.window.start_line <= 2 * sq.context_lines + 1

----------------------------------------------------------------------------
(* Properties of the declaration of a Java method *)

\* a text without its blanks and line breaks
C21_NoSpace(t) == SelectSeq(t, LAMBDA b : b.ch \notin {" ", "\n"})

\* the header of container i: from the start of its first line, the doc
\* comment's when it has one, through its opening brace
C21_Header(text, i) ==
    SubSeq(text, GetLineStartIndex(text, FindContainerStartWithComments(text, i)),
           FirstAfter(text, IndexOf(text, ByteOf("C", i)), "{"))

RECURSIVE C21_Headers(_, _, _)
C21_Headers(text, i, n) ==
    IF i > n THEN <<>> ELSE C21_Header(text, i) \o C21_Headers(text, i + 1, n)

\* the method's text from the start of its first line through the opening
\* brace of its body, or all of it when it has no body
C21_MethodHeader(text) ==
    LET m == IndexOf(text, Byte("M"))
    IN  IF text[m + 1].ch = "{" THEN SubSeq(text, GetLineStartIndex(text, m), m + 1)
        ELSE SubSeq(text, m, m + 1)

\* C21: the declaration of a method chunk is the header of each enclosing
\* container, outermost first, through its opening brace and nothing beyond,
\* then the method's own text through the opening brace of its body (all of it
\* without a body); the content is the body after that brace with the closing
\* brace (empty without a body). Blanks and line breaks are set aside.
C21_DeclarationComposition ==
    sq.pc = "jd_done" =>
        /\ C21_NoSpace(sq.chunk.declaration) =
              C21_NoSpace(C21_Headers(sq.text, 1, sq.depth) \o C21_MethodHeader(sq.text))
        /\ C21_NoSpace(sq.chunk.content) =
              (IF \E k \in 1..Len(sq.text) : sq.text[k].ch = "b"
               THEN <<Byte("b"), Byte("}")>> ELSE <<>>)

====
